---- MODULE Spec2Model ----
(***************************************************************************)
(* Model of the WhatsApp appointment assistant: the /message handler       *)
(* `reply` of main.py (context fetch, model call, response parsing,        *)
(* conversation logging, chat reply, appointment processing) and the       *)
(* sheet mirror sync_appt_to_sheet of app/sheets_sync.py.                  *)
(*                                                                         *)
(* Text is modelled as a sequence of lines, JSON values as tagged records, *)
(* dates and times as the digit groups strptime reads.                     *)
(***************************************************************************)
EXTENDS Integers, Sequences, FiniteSets, TLC

VARIABLES
    appointments,   \* the Appointment table, in insertion (id) order
    conversations,  \* the Conversation table, in insertion (id) order
    sheet,          \* rows of Sheet1, header first
    runs,           \* number of requests received so far
    local           \* per request handler: its position and local variables

vars == <<appointments, conversations, sheet, runs, local>>

(***************************************************************************)
(* Bounds of the model.                                                    *)
(***************************************************************************)
MaxRuns == 2

Procs == {1, 2}

(***************************************************************************)
(* JSON values as json.loads yields them (None, int, str, list, dict).     *)
(* A dict is a record whose missing keys hold Absent.                      *)
(***************************************************************************)
Absent == [t |-> "absent"]
None == [t |-> "null"]
Num(n) == [t |-> "num", n |-> n]
Str(s) == [t |-> "str", s |-> s, len |-> Len(s)]
List(n) == [t |-> "list", len |-> n]
Reply(user_text, appointmentinfo) ==
    [t |-> "obj", user_text |-> user_text, appointmentinfo |-> appointmentinfo]
Intent(name, type, date, time) ==
    [t |-> "obj", name |-> name, type |-> type, date |-> date, time |-> time]

required_fields == <<"name", "type", "date", "time">>

\* dict.get(key): the value, or None when the key is missing
Get(d, key) == IF d[key] = Absent THEN None ELSE d[key]

\* dict.get(key, default)
GetDefault(d, key, default) == IF d[key] = Absent THEN default ELSE d[key]

\* Python truthiness of a JSON value
Truthy(v) ==
    CASE v.t = "absent" -> FALSE
      [] v.t = "null" -> FALSE
      [] v.t = "num" -> v.n # 0
      [] v.t = "str" -> v.len > 0
      [] v.t = "list" -> v.len > 0
      [] v.t = "obj" -> \E k \in DOMAIN v : k # "t" /\ v[k] # Absent

(***************************************************************************)
(* Raw model output: a sequence of lines.  A line is a fence ("```"), a    *)
(* fence with the language tag ("```json"), a bare tag line ("json"), a    *)
(* blank line, prose, a whole JSON document, or the head or tail half of a *)
(* JSON document printed over two lines.                                   *)
(***************************************************************************)
Line(k, v) == [k |-> k, v |-> v]
Fence == Line("fence", None)
FenceJson == Line("fencejson", None)
Tag == Line("tag", None)
Blank == Line("blank", None)
Prose == Line("prose", None)
Doc(v) == Line("doc", v)
DocHead(v) == Line("head", v)
DocTail(v) == Line("tail", v)

RECURSIVE LStrip(_)
LStrip(text) ==
    IF text # <<>> /\ Head(text).k = "blank" THEN LStrip(Tail(text)) ELSE text

RECURSIVE RStrip(_)
RStrip(text) ==
    IF text # <<>> /\ text[Len(text)].k = "blank"
    THEN RStrip(SubSeq(text, 1, Len(text) - 1))
    ELSE text

\* str.strip(): whitespace-only lines at both ends go
Strip(text) == RStrip(LStrip(text))

StartsWithFence(text) == text # <<>> /\ text[1].k \in {"fence", "fencejson"}

StartsWithJson(text) == text # <<>> /\ text[1].k = "tag"

\* Mutant of Inner: lines[1:], the last line is kept
InnerToEnd(lines) == SubSeq(lines, 2, Len(lines))

\* lines[1:-1]
Inner(lines) == SubSeq(lines, 2, Len(lines) - 1)

\* response_text[4:].strip() when the text starts with "json": the tag goes,
\* what is left of its line is empty
DropTag(text) == Strip(<<Blank>> \o Tail(text))

NonBlank(text) == SelectSeq(text, LAMBDA l : l.k # "blank")

\* json.loads: the text must hold exactly one JSON document (whitespace around
\* and between its lines allowed); anything else is a JSONDecodeError
JsonLoads(text) ==
    LET nb == NonBlank(text) IN
    IF Len(nb) = 1 /\ nb[1].k = "doc"
    THEN [ok |-> TRUE, value |-> nb[1].v]
    ELSE IF Len(nb) = 2 /\ nb[1].k = "head" /\ nb[2].k = "tail" /\ nb[1].v = nb[2].v
    THEN [ok |-> TRUE, value |-> nb[1].v]
    ELSE [ok |-> FALSE, value |-> None]

FallbackReply == "I'm having trouble processing that right now. Please try again."
DefaultReply == "I'm here to help with your real estate needs!"

\* Lines 100-105: strip, and unwrap a fenced block
Unfence(text) ==
    LET response_text == Strip(text) IN
    IF StartsWithFence(response_text)
    THEN LET inner == Inner(response_text) IN
         IF StartsWithJson(inner) THEN DropTag(inner) ELSE inner
    ELSE response_text

\* all(appt_info.get(field) for field in required_fields)
AllRequired(appt_info) ==
    \A i \in 1..Len(required_fields) : Truthy(Get(appt_info, required_fields[i]))

\* Mutant of OnParseFailure: the reply variable starts as the other default
OnParseFailureDefaultReply ==
    [chat_response |-> Str(DefaultReply), appt_info |-> None, parse_error |-> TRUE]

\* Lines 95-96: what the variables hold when json.loads or data.get raises
OnParseFailure ==
    [chat_response |-> Str(FallbackReply), appt_info |-> None, parse_error |-> TRUE]

\* Step 4 of reply (lines 94-119): the reply text and the appointment info left
\* in the handler's variables when the try block ends, and whether it ended in
\* the except clause
ParseResponse(text) ==
    LET loaded == JsonLoads(Unfence(text)) IN
    IF ~loaded.ok \/ loaded.value.t # "obj"
    THEN \* JSONDecodeError, or .get on a value that is no dict
         OnParseFailure
    ELSE LET data == loaded.value
             chat_response == GetDefault(data, "user_text", Str(DefaultReply))
             appt_info == Get(data, "appointmentinfo")
         IN  IF ~Truthy(appt_info)
             THEN [chat_response |-> chat_response, appt_info |-> appt_info,
                   parse_error |-> FALSE]
             ELSE IF appt_info.t # "obj"
             THEN \* appt_info.get raises AttributeError after both assignments
                  [chat_response |-> chat_response, appt_info |-> appt_info,
                   parse_error |-> TRUE]
             ELSE IF ~AllRequired(appt_info)
             THEN [chat_response |-> chat_response, appt_info |-> None,
                   parse_error |-> FALSE]
             ELSE [chat_response |-> chat_response, appt_info |-> appt_info,
                   parse_error |-> FALSE]

(***************************************************************************)
(* Dates and times.  strptime reads digit groups out of the text; the      *)
(* groups of every date and time text the model uses are tabulated here    *)
(* (<<>>: the text does not have the shape of the format at all).          *)
(***************************************************************************)
DateTexts == {"2026-03-02", "2026-03-03", "2026-02-30", "next Monday"}
TimeTexts == {"00:10", "01:00", "01:30", "01:31", "25:00", "2pm"}

DateGroups(s) ==
    CASE s = "2026-03-02" -> <<2026, 3, 2>>
      [] s = "2026-03-03" -> <<2026, 3, 3>>
      [] s = "2026-02-30" -> <<2026, 2, 30>>
      [] OTHER -> <<>>

TimeGroups(s) ==
    CASE s = "00:10" -> <<0, 10>>
      [] s = "01:00" -> <<1, 0>>
      [] s = "01:30" -> <<1, 30>>
      [] s = "01:31" -> <<1, 31>>
      [] s = "25:00" -> <<25, 0>>
      [] OTHER -> <<>>

IsLeap(y) == (y % 4 = 0 /\ y % 100 # 0) \/ y % 400 = 0

DaysInMonth(y, m) ==
    IF m = 2 THEN (IF IsLeap(y) THEN 29 ELSE 28)
    ELSE IF m \in {4, 6, 9, 11} THEN 30 ELSE 31

MinutesPerDay == 24 * 60

\* f"{value}" of a JSON value
Format(v) ==
    CASE v.t = "str" -> v.s
      [] v.t = "num" -> ToString(v.n)
      [] v.t = "null" -> "None"
      [] OTHER -> "[...]"

\* datetime.strptime(f"{date} {time}", "%Y-%m-%d %H:%M"): the date and the
\* minute of the day, or a ValueError
Strptime(date, time) ==
    LET d == DateGroups(date)
        t == TimeGroups(time)
    IN  IF /\ Len(d) = 3 /\ Len(t) = 2
           /\ d[1] \in 1..9999 /\ d[2] \in 1..12 /\ d[3] \in 1..DaysInMonth(d[1], d[2])
           /\ t[1] \in 0..23 /\ t[2] \in 0..59
        THEN [ok |-> TRUE, date |-> d, time |-> t[1] * 60 + t[2]]
        ELSE [ok |-> FALSE, date |-> <<>>, time |-> 0]

NoDateTime == [ok |-> FALSE, date |-> <<>>, time |-> 0]

ConflictWindow == 30

\* (appt_dt -/+ timedelta(minutes=30)).time(): the clock time alone, the day
\* the shifted instant falls on is dropped
start_time(appt_dt) == (appt_dt.time - ConflictWindow) % MinutesPerDay
end_time(appt_dt) == (appt_dt.time + ConflictWindow) % MinutesPerDay

\* Lines 168-172: the rows the conflict query matches
ConflictRows(appts, appt_dt) ==
    SelectSeq(appts, LAMBDA a : /\ a.date = appt_dt.date
                                /\ a.time >= start_time(appt_dt)
                                /\ a.time <= end_time(appt_dt))

\* .first() returned a row
Conflict(appts, appt_dt) == ConflictRows(appts, appt_dt) # <<>>

\* Appointment(phone=..., name=..., type=..., date=..., time=...)
Appointment(whatsapp_number, appt_info, appt_dt) ==
    [phone |-> whatsapp_number,
     name |-> Format(appt_info.name),
     type |-> Format(appt_info.type),
     date |-> appt_dt.date,
     time |-> appt_dt.time]

(***************************************************************************)
(* Conversation context (lines 36-39).                                     *)
(***************************************************************************)
ContextLimit == 3

Reversed(s) == [i \in 1..Len(s) |-> s[Len(s) + 1 - i]]

Limit(s, n) == SubSeq(s, 1, IF Len(s) < n THEN Len(s) ELSE n)

\* Mutant of last_msgs: the rows are taken in ascending order of id
last_msgsAscending(convs, sender) ==
    Limit(SelectSeq(convs, LAMBDA c : c.sender = sender), ContextLimit)

\* query(Conversation).filter_by(sender=...).order_by(id.desc()).limit(3).all()
last_msgs(convs, sender) ==
    Limit(Reversed(SelectSeq(convs, LAMBDA c : c.sender = sender)), ContextLimit)

\* "\n".join(msg.message for msg in reversed(last_msgs)), as its lines
context_text(convs, sender) ==
    LET r == Reversed(last_msgs(convs, sender)) IN
    [i \in 1..Len(r) |-> r[i].message]

\* From.replace('whatsapp:', ''): From as its parts, every 'whatsapp:' part goes
RECURSIVE Concat(_)
Concat(parts) == IF parts = <<>> THEN "" ELSE Head(parts) \o Concat(Tail(parts))

StripPrefix(From) == Concat(SelectSeq(From, LAMBDA part : part # "whatsapp:"))

(***************************************************************************)
(* Transport.                                                              *)
(***************************************************************************)
TransportLimit == 1600
TruncatedLength == 1597

\* Lines 135-136. A text is kept as its opening and its length.
Truncate(chat_response) ==
    IF chat_response.len > TransportLimit
    THEN [chat_response EXCEPT !.s = @ \o "...", !.len = TruncatedLength + 3]
    ELSE chat_response

Message(to, kind, text) == [to |-> to, kind |-> kind, text |-> text]

CancellationText(appt_info) ==
    Str("Cancellation noted. " \o Format(appt_info.name) \o "'s appointment on "
        \o Format(appt_info.date) \o " at " \o Format(appt_info.time)
        \o " has been cancelled.")

ConfirmationText(appt_info) ==
    Str("Confirmed! " \o Format(appt_info.name) \o "'s " \o Format(appt_info.type)
        \o " on " \o Format(appt_info.date) \o " at " \o Format(appt_info.time) \o ".")

ConflictText ==
    Str("Sorry, Sherri already has an appointment at that time. Could you choose another time?")

(***************************************************************************)
(* The sheet mirror (sheets_sync.py).  The sheet is a grid of rows of six  *)
(* cells, "" an empty cell.                                                *)
(***************************************************************************)
Columns == 6

DefaultHeader == <<"type", "date", "time", "clientName", "phone", "status">>

Pad2(n) == IF n < 10 THEN "0" \o ToString(n) ELSE ToString(n)

\* str(a.date), str(a.time)
DateStr(d) == ToString(d[1]) \o "-" \o Pad2(d[2]) \o "-" \o Pad2(d[3])
TimeStr(t) == Pad2(t \div 60) \o ":" \o Pad2(t % 60) \o ":00"

RECURSIVE TrimRow(_)
TrimRow(row) ==
    IF row # <<>> /\ row[Len(row)] = "" THEN TrimRow(SubSeq(row, 1, Len(row) - 1))
    ELSE row

RECURSIVE TrimRows(_)
TrimRows(rows) ==
    IF rows # <<>> /\ rows[Len(rows)] = <<>> THEN TrimRows(SubSeq(rows, 1, Len(rows) - 1))
    ELSE rows

\* values().get: the rows without their trailing empty cells, and without the
\* trailing empty rows
SheetGet(grid) == TrimRows([i \in 1..Len(grid) |-> TrimRow(grid[i])])

\* values().update at A1: each written row replaces the leading cells of the
\* row it lands on; cells to its right and rows below the written block stay
Overlay(old, new) ==
    [c \in 1..Columns |-> IF c <= Len(new) THEN new[c] ELSE old[c]]

EmptyRow == [c \in 1..Columns |-> ""]

SheetUpdate(grid, values) ==
    LET n == IF Len(grid) > Len(values) THEN Len(grid) ELSE Len(values) IN
    [i \in 1..n |->
        IF i <= Len(values)
        THEN Overlay(IF i <= Len(grid) THEN grid[i] ELSE EmptyRow, values[i])
        ELSE grid[i]]

\* Lines 40-46 of sheets_sync.py (strip() of the status cell: a cell of
\* spaces is not modelled)
StatusBlank(row) == Len(row) <= 5 \/ row[6] = ""

AppointmentRow(a) == <<a.type, DateStr(a.date), TimeStr(a.time), a.name, a.phone, "">>

\* sync_appt_to_sheet: the grid after the call
sync_appt_to_sheet(appts, grid) ==
    LET rows == SheetGet(grid)
        header == IF rows # <<>> THEN rows[1] ELSE DefaultHeader
        data_rows == IF Len(rows) > 1 THEN Tail(rows) ELSE <<>>
        rows_to_keep == SelectSeq(data_rows, StatusBlank)
                        \o [i \in 1..Len(appts) |-> AppointmentRow(appts[i])]
    IN  SheetUpdate(grid, <<header>> \o rows_to_keep)

(***************************************************************************)
(* Inputs: the requests and the model outputs the handler is run on.       *)
(***************************************************************************)
Froms == {<<"whatsapp:", "+15550001">>}
Bodies == {"Book a showing"}

CheckingReply == Str("Let me check Sherri's availability for that time...")
ChatReply == Str("Happy to help!")
LongReply == [t |-> "str", s |-> "Sherri has many listings", len |-> TransportLimit + 100]

Times == {"00:10", "01:00", "01:30", "01:31"}

Jane == Str("Jane Doe")

\* Kind, date and time of the intents asked for: showings on one date at each
\* of the times, one on another date, and a cancellation
Slots ==
    ({"showing"} \X {"2026-03-02"} \X Times)
        \cup {<<"showing", "2026-03-03", "01:00">>, <<"cancellation", "2026-03-02", "01:00">>}

\* Complete intents with a well-formed date and time, as one-line JSON
CompleteOutputs ==
    {<<Doc(Reply(CheckingReply, Intent(Jane, Str(sl[1]), Str(sl[2]), Str(sl[3]))))>> :
        sl \in Slots}

SampleIntent == Intent(Jane, Str("consultation"), Str("2026-03-02"), Str("01:00"))

\* The same document fenced, tagged, printed over two lines, or cut short
FencedOutputs ==
    LET v == Reply(CheckingReply, SampleIntent) IN
    { <<FenceJson, Doc(v), Fence>>,
      <<Fence, Tag, DocHead(v), DocTail(v), Fence, Blank>>,
      <<FenceJson, DocHead(v), DocTail(v)>> }

\* Outputs that are off the requested format
OddOutputs ==
    { <<Prose>>,
      <<Doc(List(2))>>,
      <<Doc(Reply(ChatReply, None))>>,
      <<Doc(Reply(LongReply, None))>>,
      <<Doc(Reply(Absent, SampleIntent))>>,
      <<Doc(Reply(None, SampleIntent))>>,
      <<Doc(Reply(ChatReply, List(1)))>>,
      <<Doc(Reply(ChatReply, Intent(Jane, Str("showing"), Str("2026-03-02"), Absent)))>>,
      <<Doc(Reply(CheckingReply, Intent(Jane, Str("tour"), Str("2026-03-02"), Str("01:00"))))>>,
      <<Doc(Reply(CheckingReply, Intent(Jane, Str("showing"), Str("2026-02-30"), Str("01:00"))))>>,
      <<Doc(Reply(CheckingReply, Intent(Jane, Str("showing"), Str("2026-03-02"), Str("25:00"))))>> }

ModelOutputs == CompleteOutputs \cup FencedOutputs \cup OddOutputs

(***************************************************************************)
(* The request handler `reply`, one action per step.  local[p].pc is the   *)
(* step request p is at; "done" is after `return ""`, "raised" after an    *)
(* exception left the handler.  sent, synced, start_appts, start_convs and *)
(* failed record what the run did: the messages handed to send_message,    *)
(* the calls of sync_appt_to_sheet, the two tables when the run began and  *)
(* the calls that failed.                                                  *)
(***************************************************************************)
InitLocal ==
    [pc |-> "idle", whatsapp_number |-> "", Body |-> "", context_text |-> <<>>,
     response |-> <<>>, chat_response |-> None, appt_info |-> None,
     parse_error |-> FALSE, appt_dt |-> NoDateTime, conflict |-> FALSE,
     sent |-> <<>>, synced |-> 0, start_appts |-> <<>>, start_convs |-> <<>>,
     failed |-> {}]

Init ==
    /\ appointments = <<>>
    /\ conversations = <<>>
    /\ sheet = <<>>
    /\ runs = 0
    /\ local = [p \in Procs |-> InitLocal]

Finished(p) == local[p].pc \in {"idle", "done", "raised"}

Goto(p, pc) == local' = [local EXCEPT ![p].pc = pc]

\* Lines 33-39: a request out of froms x bodies arrives, the context is fetched
Receive(p, froms, bodies) ==
    /\ Finished(p)
    /\ runs < MaxRuns
    /\ runs' = runs + 1
    /\ \E From \in froms, Body \in bodies :
          LET number == StripPrefix(From)
              fresh == [InitLocal EXCEPT !.whatsapp_number = number, !.Body = Body,
                                         !.start_appts = appointments,
                                         !.start_convs = conversations]
          IN  \/ local' = [local EXCEPT ![p] =
                     [fresh EXCEPT !.pc = "call_model",
                                   !.context_text = context_text(conversations, number)]]
              \/ \* the query raises
                 local' = [local EXCEPT ![p] =
                     [fresh EXCEPT !.pc = "raised", !.failed = {"context"}]]
    /\ UNCHANGED <<appointments, conversations, sheet>>

ReceiveMessage(p) == Receive(p, Froms, Bodies)

\* Lines 74-92: the model answers with one of outputs, or the call raises and
\* is re-raised
Generate(p, outputs) ==
    /\ local[p].pc = "call_model"
    /\ \/ \E text \in outputs :
             local' = [local EXCEPT ![p].response = text, ![p].pc = "parse"]
       \/ local' = [local EXCEPT ![p].pc = "raised", ![p].failed = @ \cup {"model"}]
    /\ UNCHANGED <<appointments, conversations, sheet, runs>>

CallModel(p) == Generate(p, ModelOutputs)

\* Lines 94-119
Parse(p) ==
    /\ local[p].pc = "parse"
    /\ LET r == ParseResponse(local[p].response) IN
       local' = [local EXCEPT ![p].chat_response = r.chat_response,
                              ![p].appt_info = r.appt_info,
                              ![p].parse_error = r.parse_error,
                              ![p].pc = "store"]
    /\ UNCHANGED <<appointments, conversations, sheet, runs>>

Conversation(sender, message, response) ==
    [sender |-> sender, message |-> message, response |-> response]

\* Mutant of AfterStore: an extracted intent is processed before the reply
AfterStoreAppointmentFirst(p) ==
    IF Truthy(local[p].appt_info) THEN "convert" ELSE "send"

\* Step 6 follows step 5 whatever was parsed (line 134)
AfterStore(p) == "send"

\* Mutant of StoreConversation: the failed commit is not caught
StoreConversationUncaught(p) ==
    /\ local[p].pc = "store"
    /\ \/ /\ conversations' = Append(conversations,
                Conversation(local[p].whatsapp_number, local[p].Body,
                             local[p].chat_response))
          /\ Goto(p, "send")
       \/ /\ UNCHANGED conversations
          /\ local' = [local EXCEPT ![p].pc = "raised",
                                    ![p].failed = @ \cup {"conversation"}]
    /\ UNCHANGED <<appointments, sheet, runs>>

\* Lines 121-132: the turn is stored, or the commit fails and is rolled back
StoreConversation(p) ==
    /\ local[p].pc = "store"
    /\ \/ /\ conversations' = Append(conversations,
                Conversation(local[p].whatsapp_number, local[p].Body,
                             local[p].chat_response))
          /\ Goto(p, AfterStore(p))
       \/ /\ UNCHANGED conversations
          /\ local' = [local EXCEPT ![p].pc = AfterStore(p),
                                    ![p].failed = @ \cup {"conversation"}]
    /\ UNCHANGED <<appointments, sheet, runs>>

\* if appt_info: (line 140)
AfterReply(p) == IF Truthy(local[p].appt_info) THEN "convert" ELSE "done"

\* Lines 134-137: len() of a reply that has no length raises; send_message
\* delivers or raises; nothing here is caught
SendReply(p) ==
    /\ local[p].pc = "send"
    /\ IF local[p].chat_response.t \in {"null", "num"}
       THEN local' = [local EXCEPT ![p].pc = "raised", ![p].failed = @ \cup {"len"}]
       ELSE LET text == Truncate(local[p].chat_response)
                msg == Message(local[p].whatsapp_number, "chat", text)
            IN  \/ local' = [local EXCEPT ![p].chat_response = text,
                                          ![p].sent = Append(@, msg),
                                          ![p].pc = AfterReply(p)]
                \/ local' = [local EXCEPT ![p].chat_response = text,
                                          ![p].sent = Append(@, msg),
                                          ![p].pc = "raised",
                                          ![p].failed = @ \cup {"reply"}]
    /\ UNCHANGED <<appointments, conversations, sheet, runs>>

\* Mutant of AfterConvert: cancellations go through the conflict check too
AfterConvertAlwaysQuery(p) == "query"

\* if appt_info['type'] == 'cancellation': (line 148)
AfterConvert(p) ==
    IF local[p].appt_info.type = Str("cancellation") THEN "save_cancellation" ELSE "query"

\* Lines 143-145: subscripting a value that is no dict raises TypeError,
\* strptime raises ValueError; both are caught (lines 197, 202)
ConvertDateTime(p) ==
    /\ local[p].pc = "convert"
    /\ IF local[p].appt_info.t # "obj"
       THEN local' = [local EXCEPT ![p].pc = "done", ![p].failed = @ \cup {"subscript"}]
       ELSE LET dt == Strptime(Format(local[p].appt_info.date),
                               Format(local[p].appt_info.time))
            IN  IF dt.ok
                THEN local' = [local EXCEPT ![p].appt_dt = dt, ![p].pc = AfterConvert(p)]
                ELSE local' = [local EXCEPT ![p].pc = "done",
                                            ![p].failed = @ \cup {"format"}]
    /\ UNCHANGED <<appointments, conversations, sheet, runs>>

\* Mutant of Commit: a failed commit is logged and the branch goes on
CommitFailureIgnored(p, next) ==
    \/ /\ appointments' = Append(appointments,
             Appointment(local[p].whatsapp_number, local[p].appt_info, local[p].appt_dt))
       /\ Goto(p, next)
    \/ /\ UNCHANGED appointments
       /\ local' = [local EXCEPT ![p].pc = next, ![p].failed = @ \cup {"commit"}]

\* db.add(appt); db.commit(): the row is stored, or the commit fails with a
\* SQLAlchemyError and is rolled back (line 200)
Commit(p, next) ==
    \/ /\ appointments' = Append(appointments,
             Appointment(local[p].whatsapp_number, local[p].appt_info, local[p].appt_dt))
       /\ Goto(p, next)
    \/ /\ UNCHANGED appointments
       /\ local' = [local EXCEPT ![p].pc = "done", ![p].failed = @ \cup {"commit"}]

\* Mutant of Send: an exception of send_message leaves the handler
SendUncaught(p, kind, text) ==
    LET msg == Message(local[p].whatsapp_number, kind, text) IN
    \/ local' = [local EXCEPT ![p].sent = Append(@, msg), ![p].pc = "done"]
    \/ local' = [local EXCEPT ![p].sent = Append(@, msg), ![p].pc = "raised",
                              ![p].failed = @ \cup {"send"}]

\* send_message inside the try block: an exception is caught (line 202)
Send(p, kind, text) ==
    LET msg == Message(local[p].whatsapp_number, kind, text) IN
    \/ local' = [local EXCEPT ![p].sent = Append(@, msg), ![p].pc = "done"]
    \/ local' = [local EXCEPT ![p].sent = Append(@, msg), ![p].pc = "done",
                              ![p].failed = @ \cup {"send"}]

\* Lines 149-157
SaveCancellation(p) ==
    /\ local[p].pc = "save_cancellation"
    /\ Commit(p, "note_cancellation")
    /\ UNCHANGED <<conversations, sheet, runs>>

\* Lines 160-161
SendCancellationNote(p) ==
    /\ local[p].pc = "note_cancellation"
    /\ Send(p, "cancellation", CancellationText(local[p].appt_info))
    /\ UNCHANGED <<appointments, conversations, sheet, runs>>

\* Mutant of AfterQuery: the answer of the conflict query is ignored
AfterQueryIgnoresConflict(conflict) == "save_appointment"

\* if not conflict: (line 174)
AfterQuery(conflict) == IF conflict THEN "reject" ELSE "save_appointment"

\* Lines 165-172: the conflict query, or a SQLAlchemyError
CheckConflict(p) ==
    /\ local[p].pc = "query"
    /\ \/ LET conflict == Conflict(appointments, local[p].appt_dt) IN
          local' = [local EXCEPT ![p].conflict = conflict, ![p].pc = AfterQuery(conflict)]
       \/ local' = [local EXCEPT ![p].pc = "done", ![p].failed = @ \cup {"query"}]
    /\ UNCHANGED <<appointments, conversations, sheet, runs>>

\* Lines 176-185
SaveAppointment(p) ==
    /\ local[p].pc = "save_appointment"
    /\ Commit(p, "sync")
    /\ UNCHANGED <<conversations, sheet, runs>>

\* Line 187: the sheet is rewritten, or the call raises, which line 202 catches
SyncSheet(p) ==
    /\ local[p].pc = "sync"
    /\ \/ /\ sheet' = sync_appt_to_sheet(appointments, sheet)
          /\ local' = [local EXCEPT ![p].synced = @ + 1, ![p].pc = "confirm"]
       \/ /\ UNCHANGED sheet
          /\ local' = [local EXCEPT ![p].synced = @ + 1, ![p].pc = "done",
                                    ![p].failed = @ \cup {"sync"}]
    /\ UNCHANGED <<appointments, conversations, runs>>

\* Lines 189-190
SendConfirmation(p) ==
    /\ local[p].pc = "confirm"
    /\ Send(p, "confirmation", ConfirmationText(local[p].appt_info))
    /\ UNCHANGED <<appointments, conversations, sheet, runs>>

\* Lines 192-195
SendConflict(p) ==
    /\ local[p].pc = "reject"
    /\ Send(p, "conflict", ConflictText)
    /\ UNCHANGED <<appointments, conversations, sheet, runs>>

Step(p) ==
    \/ ReceiveMessage(p)
    \/ CallModel(p)
    \/ Parse(p)
    \/ StoreConversation(p)
    \/ SendReply(p)
    \/ ConvertDateTime(p)
    \/ SaveCancellation(p)
    \/ SendCancellationNote(p)
    \/ CheckConflict(p)
    \/ SaveAppointment(p)
    \/ SyncSheet(p)
    \/ SendConfirmation(p)
    \/ SendConflict(p)

\* Requests handled one at a time
Next == Step(1)

Spec == Init /\ [][Next]_vars

(***************************************************************************)
(* Properties.                                                             *)
(***************************************************************************)
Booking(a) == a.type # "cancellation"

\* Minutes between two clock times of one day
Apart(t1, t2) == IF t1 >= t2 THEN t1 - t2 ELSE t2 - t1

Rows(table) == {table[i] : i \in 1..Len(table)}

Kind(msgs) == [i \in 1..Len(msgs) |-> msgs[i].kind]

\* The conflict query of request p has run and its answer is in local[p].conflict
Queried(p) == local[p].pc \in {"reject", "save_appointment"}

\* C1: with requests handled one at a time, the Appointment table never holds
\* two records of a kind other than cancellation on the same date with clock
\* times 30 minutes or less apart, whatever the date and time of day.
C1_NoOverlappingBookings ==
    \A i, j \in 1..Len(appointments) :
        (/\ i < j
         /\ Booking(appointments[i]) /\ Booking(appointments[j])
         /\ appointments[i].date = appointments[j].date)
        => Apart(appointments[i].time, appointments[j].time) > ConflictWindow

\* C2: for a booking with a well-formed date and time, the conflict check
\* reports a conflict if a stored booking on that date is at most 30 minutes
\* away, and no conflict if every record on that date is 31 minutes or more
\* away.
C2_WindowDecidesConflict ==
    \A p \in Procs :
        Queried(p) =>
            LET dt == local[p].appt_dt
                sameDate == {a \in Rows(appointments) : a.date = dt.date}
            IN  /\ (\E a \in sameDate :
                       Booking(a) /\ Apart(a.time, dt.time) <= ConflictWindow)
                   => local[p].conflict
                /\ (\A a \in sameDate : Apart(a.time, dt.time) > ConflictWindow)
                   => ~local[p].conflict

\* C3: the conflict check of a booking looks at bookings only: when every
\* record on the candidate date within 30 minutes of the candidate time is a
\* cancellation, no conflict is reported.
C3_CancellationsDoNotBlock ==
    \A p \in Procs :
        Queried(p) =>
            LET dt == local[p].appt_dt
                inWindow == {a \in Rows(appointments) :
                                /\ a.date = dt.date
                                /\ Apart(a.time, dt.time) <= ConflictWindow}
            IN  (\A a \in inWindow : ~Booking(a)) => ~local[p].conflict

\* The request of p carries a complete intent whose date and time were parsed
Converted(p) == local[p].appt_info.t = "obj" /\ local[p].appt_dt.ok

CancellationOf(p) == Converted(p) /\ local[p].appt_info.type = Str("cancellation")

BookingOf(p) == Converted(p) /\ local[p].appt_info.type # Str("cancellation")

\* The record the run of p writes
Record(p) == Appointment(local[p].whatsapp_number, local[p].appt_info, local[p].appt_dt)

ChatMessage(p) == Message(local[p].whatsapp_number, "chat", local[p].chat_response)

\* C4: a cancellation with a well-formed date and time is never conflict
\* checked, whatever the table holds: the run adds exactly one cancellation
\* record and then, storage and transport succeeding, has sent the
\* cancellation confirmation.
C4_CancellationAlwaysRecorded ==
    \A p \in Procs :
        CancellationOf(p) =>
            LET L == local[p] IN
            /\ ~L.conflict
            /\ L.pc \in {"save_cancellation", "note_cancellation", "done"}
            /\ L.synced = 0
            /\ L.pc = "save_cancellation" => appointments = L.start_appts
            /\ L.pc = "note_cancellation" =>
                  /\ appointments = Append(L.start_appts, Record(p))
                  /\ L.sent = <<ChatMessage(p)>>
            /\ (L.pc = "done" /\ L.failed = {}) =>
                  /\ appointments = Append(L.start_appts, Record(p))
                  /\ Record(p).type = "cancellation"
                  /\ L.sent = <<ChatMessage(p),
                                Message(L.whatsapp_number, "cancellation",
                                        CancellationText(L.appt_info))>>

\* A cancellation was recorded over a booking stored at the same instant
C4_Witness ==
    \E p \in Procs :
        /\ CancellationOf(p) /\ local[p].pc = "done" /\ local[p].failed = {}
        /\ \E a \in Rows(local[p].start_appts) :
              /\ Booking(a)
              /\ a.date = local[p].appt_dt.date /\ a.time = local[p].appt_dt.time
        /\ Len(appointments) = Len(local[p].start_appts) + 1

ApptSteps ==
    {"convert", "save_cancellation", "note_cancellation", "query", "save_appointment",
     "sync", "confirm", "reject"}

ApptFailures == {"subscript", "format", "query", "commit", "sync", "send"}

\* C5: the chat reply is handed to the transport before any step of
\* appointment processing, so every effect and every failure of appointment
\* processing is found in a state where the chat reply was already sent.
C5_ReplyBeforeAppointment ==
    \A p \in Procs :
        LET L == local[p] IN
        (/\ L.pc # "idle"
         /\ \/ L.pc \in ApptSteps
            \/ L.failed \cap ApptFailures # {}
            \/ appointments # L.start_appts
            \/ L.synced > 0
            \/ L.appt_dt.ok
            \/ \E i \in 1..Len(L.sent) : L.sent[i].kind # "chat")
        => /\ L.sent # <<>>
           /\ L.sent[1] = ChatMessage(p)

\* Appointment processing failed after the reply went out
C5_Witness ==
    \E p \in Procs :
        /\ local[p].pc = "done"
        /\ local[p].failed \cap ApptFailures # {}
        /\ local[p].sent = <<ChatMessage(p)>>

\* C6: a run that finds no conflict and commits a booking goes on to hand the
\* booking confirmation to the transport, also when the sheet sync fails.
C6_CommittedBookingIsConfirmed ==
    \A p \in Procs :
        (/\ local[p].pc = "done"
         /\ BookingOf(p)
         /\ appointments = Append(local[p].start_appts, Record(p)))
        => \E i \in 1..Len(local[p].sent) :
              local[p].sent[i] = Message(local[p].whatsapp_number, "confirmation",
                                         ConfirmationText(local[p].appt_info))

\* C7: the same message processed twice from an empty Appointment table, the
\* model giving the same complete booking intent both times, leaves two
\* conversation turns and one Appointment: the second run finds the conflict,
\* stores nothing and sends the choose-another-time message, whatever the date
\* and time.
C7_SecondAttemptRejected ==
    \A p \in Procs :
        LET L == local[p] IN
        (/\ L.pc = "done" /\ L.failed = {}
         /\ BookingOf(p)
         /\ L.start_appts = <<Record(p)>>
         /\ Len(L.start_convs) = 1
         /\ L.start_convs[1].sender = L.whatsapp_number
         /\ L.start_convs[1].message = L.Body)
        => /\ L.conflict
           /\ appointments = L.start_appts
           /\ Len(conversations) = 2
           /\ L.sent = <<ChatMessage(p), Message(L.whatsapp_number, "conflict", ConflictText)>>

\* C8: a run whose conflict check reports a conflict leaves the Appointment
\* table unchanged, never calls the sheet sync and sends the conflict
\* rejection.
C8_ConflictLeavesStore ==
    \A p \in Procs :
        LET L == local[p] IN
        L.conflict =>
            /\ appointments = L.start_appts
            /\ L.synced = 0
            /\ L.pc \in {"reject", "done"}
            /\ L.pc = "reject" => L.sent = <<ChatMessage(p)>>
            /\ L.pc = "done" =>
                  L.sent = <<ChatMessage(p),
                             Message(L.whatsapp_number, "conflict", ConflictText)>>

\* A conflict was found against a stored record and the run ended
C8_Witness ==
    \E p \in Procs :
        /\ local[p].conflict /\ local[p].pc = "done"
        /\ ConflictRows(appointments, local[p].appt_dt) # <<>>
        /\ Len(local[p].sent) = 2

\* The parse step of p has run
Parsed(p) == local[p].pc \notin {"idle", "call_model", "parse"} /\ local[p].response # <<>>

InvalidJson(text) == ~JsonLoads(Unfence(text)).ok

NotAnObject(text) ==
    JsonLoads(Unfence(text)).ok /\ JsonLoads(Unfence(text)).value.t # "obj"

MissingUserText(text) ==
    /\ JsonLoads(Unfence(text)).ok
    /\ JsonLoads(Unfence(text)).value.t = "obj"
    /\ JsonLoads(Unfence(text)).value.user_text = Absent

\* C9 as stated: text that is not valid JSON, or a JSON object without a
\* user_text key, yields the fixed fallback reply and no intent, so the run
\* writes no Appointment.
C9_ParseFailureFallsBack ==
    \A p \in Procs :
        (Parsed(p) /\ (InvalidJson(local[p].response) \/ MissingUserText(local[p].response)))
        => /\ local[p].chat_response = Str(FallbackReply)
           /\ local[p].appt_info = None
           /\ appointments = local[p].start_appts

\* C9 as amended: text that is not valid JSON, or JSON that is not an object,
\* yields the fixed fallback reply and no intent, and the run writes no
\* Appointment; an object without a user_text key is no parse failure: its
\* reply is the default text and a complete appointmentinfo in it is kept.
C9_InvalidJsonFallsBack ==
    \A p \in Procs :
        Parsed(p) =>
            LET L == local[p] IN
            /\ (InvalidJson(L.response) \/ NotAnObject(L.response)) =>
                  /\ L.chat_response = Str(FallbackReply)
                  /\ L.appt_info = None
                  /\ L.parse_error
                  /\ appointments = L.start_appts
                  /\ L.pc \notin ApptSteps
                  /\ L.sent \in {<<>>, <<ChatMessage(p)>>}
            /\ MissingUserText(L.response) =>
                  LET info == JsonLoads(Unfence(L.response)).value.appointmentinfo IN
                  /\ L.chat_response = Str(DefaultReply)
                  /\ (info.t = "obj" /\ AllRequired(info)) => L.appt_info = info

\* A run on text that is not JSON ended with the fallback reply sent
C9_Witness ==
    \E p \in Procs :
        /\ Parsed(p) /\ local[p].pc = "done"
        /\ InvalidJson(local[p].response)
        /\ local[p].sent = <<Message(local[p].whatsapp_number, "chat", Str(FallbackReply))>>

\* C10: whatever the model output, the parse step ends with a reply that is a
\* text and an intent that is absent or has its four fields non-empty, and
\* the intent is absent whenever the step ended in its error path.
C10_ParseYieldsTextAndIntent ==
    \A p \in Procs :
        Parsed(p) =>
            LET L == local[p] IN
            /\ L.chat_response.t = "str"
            /\ \/ ~Truthy(L.appt_info)
               \/ L.appt_info.t = "obj" /\ AllRequired(L.appt_info)
            /\ L.parse_error => ~Truthy(L.appt_info)
(***************************************************************************)
(* The parse step on its own: the handler stands before step 4 with a      *)
(* model output out of a wider set, every combination of the four intent   *)
(* fields being missing, null, empty or filled, in every wrapping.         *)
(***************************************************************************)
FieldValues(filled) == {Absent, None, Str(""), filled}

ParseIntents ==
    {Intent(n, k, d, tm) : n \in FieldValues(Jane), k \in FieldValues(Str("showing")),
                           d \in FieldValues(Str("2026-03-02")),
                           tm \in FieldValues(Str("01:00"))}

ParseValues == {Reply(CheckingReply, i) : i \in ParseIntents}

\* A JSON document bare, or between a pair of fence lines with or without the
\* language tag, on one line or two, with or without blank lines around
Wrappings(v) ==
    { <<Doc(v)>>,
      <<Blank, DocHead(v), DocTail(v), Blank>>,
      <<Fence, Doc(v), Fence>>,
      <<FenceJson, Doc(v), Fence>>,
      <<Fence, Tag, Doc(v), Fence>>,
      <<Blank, FenceJson, DocHead(v), DocTail(v), Fence, Blank>>,
      <<Fence, Blank, Doc(v), Blank, Fence>> }

\* The document with no closing fence, or with prose around the block
BrokenWrappings(v) ==
    { <<FenceJson, Doc(v)>>,
      <<FenceJson, Doc(v), Fence, Prose>>,
      <<Prose, Fence, Doc(v), Fence>> }

ParseOutputs == UNION {Wrappings(v) \cup BrokenWrappings(v) : v \in ParseValues}

InitParse ==
    /\ appointments = <<>>
    /\ conversations = <<>>
    /\ sheet = <<>>
    /\ runs = 1
    /\ \E From \in Froms, Body \in Bodies, text \in ParseOutputs :
          local = [p \in Procs |->
                     IF p = 1
                     THEN [InitLocal EXCEPT !.pc = "parse",
                                            !.whatsapp_number = StripPrefix(From),
                                            !.Body = Body, !.response = text]
                     ELSE InitLocal]

NextParse == Parse(1)

SpecParse == InitParse /\ [][NextParse]_vars

\* The four fields of an intent are non-empty texts
Populated(info) ==
    \A f \in {"name", "type", "date", "time"} : info[f].t = "str" /\ info[f].len > 0

\* One of the four fields is missing, null or empty
Lacking(info) ==
    \E f \in {"name", "type", "date", "time"} : info[f] \in {Absent, None, Str("")}

\* C11: for a model output that is a JSON object, bare or between ``` fence
\* lines with or without the json tag, the parse step returns the intent as
\* given when its name, type, date and time are all non-empty, and returns no
\* intent but still the object's user_text when one of the four is missing,
\* null or empty.
C11_IntentPopulatedOrDiscarded ==
    \A p \in Procs :
        local[p].pc = "store" =>
            \A v \in ParseValues :
                local[p].response \in Wrappings(v) =>
                    /\ local[p].chat_response = v.user_text
                    /\ ~local[p].parse_error
                    /\ Populated(v.appointmentinfo) => local[p].appt_info = v.appointmentinfo
                    /\ Lacking(v.appointmentinfo) => ~Truthy(local[p].appt_info)

\* A fenced, tagged output with a complete intent was parsed into that intent
C11_Witness ==
    \E p \in Procs, v \in ParseValues :
        /\ local[p].pc = "store"
        /\ local[p].response = <<Blank, FenceJson, DocHead(v), DocTail(v), Fence, Blank>>
        /\ Populated(v.appointmentinfo)
        /\ local[p].appt_info = v.appointmentinfo

\* What a finished run has done to the Appointment table, the sheet sync and
\* the transport, given the intent it parsed and the table it started from
RunOutcome(p) ==
    LET L == local[p]
        chat == ChatMessage(p)
    IN  /\ ~Truthy(L.appt_info) =>
              /\ appointments = L.start_appts /\ L.synced = 0 /\ L.sent = <<chat>>
        /\ CancellationOf(p) =>
              /\ appointments = Append(L.start_appts, Record(p))
              /\ L.synced = 0
              /\ L.sent = <<chat, Message(L.whatsapp_number, "cancellation",
                                          CancellationText(L.appt_info))>>
        /\ (BookingOf(p) /\ Conflict(L.start_appts, L.appt_dt)) =>
              /\ appointments = L.start_appts /\ L.synced = 0
              /\ L.sent = <<chat, Message(L.whatsapp_number, "conflict", ConflictText)>>
        /\ (BookingOf(p) /\ ~Conflict(L.start_appts, L.appt_dt)) =>
              /\ appointments = Append(L.start_appts, Record(p))
              /\ L.synced = 1
              /\ L.sent = <<chat, Message(L.whatsapp_number, "confirmation",
                                          ConfirmationText(L.appt_info))>>

\* C12: when storing the conversation turn fails with a storage error, no
\* turn is stored and the run goes on: the failure never leaves the handler,
\* the chat reply is sent, and a run in which nothing else fails ends with the
\* same Appointment, sync and messages as a run whose turn was stored.
C12_ConversationFailureIsSkipped ==
    \A p \in Procs :
        LET L == local[p] IN
        /\ "conversation" \in L.failed =>
              /\ conversations = L.start_convs
              /\ L.pc \in {"send", "raised", "done"} \cup ApptSteps
              /\ L.pc = "raised" => L.failed \cap {"len", "reply"} # {}
              /\ L.pc \in {"done"} \cup ApptSteps => L.sent[1] = ChatMessage(p)
        /\ (L.pc = "done" /\ L.failed \subseteq {"conversation"}) => RunOutcome(p)

\* A booking was committed and confirmed in a run whose turn was not stored
C12_Witness ==
    \E p \in Procs :
        /\ local[p].pc = "done" /\ local[p].failed = {"conversation"}
        /\ BookingOf(p)
        /\ appointments = Append(local[p].start_appts, Record(p))
        /\ Kind(local[p].sent) = <<"chat", "confirmation">>

\* C13: once the chat reply is sent, appointment processing never leaves the
\* handler by an exception: a bad date or time, a failed conflict query or
\* commit, a failed sync and a failed confirmation or rejection message all
\* end the run with the normal empty response, and every step of appointment
\* processing can be taken and leads to another such step or to that response.
C13_ApptFailuresAreCaught ==
    /\ [](\A p \in Procs :
            /\ local[p].failed \cap ApptFailures # {} => local[p].pc = "done"
            /\ local[p].pc = "raised" =>
                  /\ local[p].failed \cap {"context", "model", "len", "reply"} # {}
                  /\ ~local[p].appt_dt.ok
                  /\ \A i \in 1..Len(local[p].sent) : local[p].sent[i].kind = "chat"
            /\ local[p].pc \in ApptSteps => ENABLED Step(p))
    /\ [][\A p \in Procs :
            local[p].pc \in ApptSteps => local'[p].pc \in ApptSteps \cup {"done"}]_vars

\* Runs ended normally after each kind of failure in appointment processing
C13_Witness ==
    \E p \in Procs :
        /\ local[p].pc = "done"
        /\ local[p].failed \cap {"commit", "send"} # {}
        /\ local[p].sent # <<>>

\* C14: a run whose Appointment write fails with a storage error, for a
\* booking or a cancellation, and a run whose date or time is malformed, ends
\* at once with the Appointment table as it was when the run began, the sheet
\* sync not called and no message sent but the chat reply.
C14_FailedWriteLeavesNoTrace ==
    \A p \in Procs :
        LET L == local[p] IN
        L.failed \cap {"commit", "format"} # {} =>
            /\ L.pc = "done"
            /\ appointments = L.start_appts
            /\ L.synced = 0
            /\ L.sent = <<ChatMessage(p)>>
            /\ "format" \in L.failed => ~L.appt_dt.ok
            /\ "commit" \in L.failed => Converted(p)

\* The commit of a cancellation failed over a table that held a record
C14_Witness ==
    \E p \in Procs :
        /\ "commit" \in local[p].failed
        /\ CancellationOf(p)
        /\ local[p].start_appts # <<>>
        /\ appointments = local[p].start_appts

(***************************************************************************)
(* Two requests in flight at once, each in a server process of its own     *)
(* with its own session on the one database (the handler has no await, so  *)
(* one event loop runs a request to its end): nothing orders the queries   *)
(* and commits of one request against those of the other.                  *)
(***************************************************************************)
ConcSlots ==
    {<<"showing", "2026-03-02", "01:00">>, <<"showing", "2026-03-02", "01:30">>,
     <<"cancellation", "2026-03-02", "01:00">>}

ConcOutputs ==
    {<<Doc(Reply(CheckingReply, Intent(Jane, Str(sl[1]), Str(sl[2]), Str(sl[3]))))>> :
        sl \in ConcSlots}

StepConc(p) ==
    \/ Receive(p, Froms, Bodies)
    \/ Generate(p, ConcOutputs)
    \/ Parse(p)
    \/ StoreConversation(p)
    \/ SendReply(p)
    \/ ConvertDateTime(p)
    \/ SaveCancellation(p)
    \/ SendCancellationNote(p)
    \/ CheckConflict(p)
    \/ SaveAppointment(p)
    \/ SyncSheet(p)
    \/ SendConfirmation(p)
    \/ SendConflict(p)

NextConc == \E p \in Procs : StepConc(p)

SpecConc == Init /\ [][NextConc]_vars

\* Clock times whose 30 minute window does not cross midnight
AwayFromMidnight(t) == t >= 30 /\ t < MinutesPerDay - 30

\* C15: with two requests in flight a conflict check is passed only when the
\* table holds no conflicting row at the moment of the query, and nothing
\* holds the table between that query and the commit: a state is reached in
\* which both requests passed the check on an empty table and both stored a
\* booking, on one date and at most 30 minutes apart, away from midnight.
C15_CheckIsNotHeldUntilCommit ==
    /\ [](\A p \in Procs :
            local[p].pc \in {"save_appointment", "sync", "confirm"} =>
                /\ ~local[p].conflict
                /\ ~Conflict(local[p].start_appts, local[p].appt_dt))
    /\ [][\A p \in Procs :
            (local[p].pc = "query" /\ local'[p].pc = "save_appointment") =>
                ~Conflict(appointments, local[p].appt_dt)]_vars

\* Both requests found no conflict and both bookings are stored
C15_Witness ==
    /\ \A p \in Procs :
          /\ BookingOf(p) /\ ~local[p].conflict
          /\ local[p].start_appts = <<>>
          /\ local[p].pc \in {"sync", "confirm", "done"}
          /\ AwayFromMidnight(local[p].appt_dt.time)
    /\ local[1].appt_dt.date = local[2].appt_dt.date
    /\ Apart(local[1].appt_dt.time, local[2].appt_dt.time) <= ConflictWindow
    /\ Rows(appointments) = {Record(1), Record(2)}
    /\ Len(appointments) = 2
    /\ \A i \in 1..2 : Booking(appointments[i])

\* C16: every record of the Appointment table has a kind out of showing,
\* consultation and cancellation, whatever the messages and the model
\* outputs: an intent of any other type is never stored.
C16_StoredKindsAreKnown ==
    \A a \in Rows(appointments) : a.type \in {"showing", "consultation", "cancellation"}

(***************************************************************************)
(* Step 1 on its own: a message arrives over a Conversation table that     *)
(* holds any sequence of up to MaxTurns turns of two senders.              *)
(***************************************************************************)
MaxTurns == 5

CtxFroms == {<<"whatsapp:", "+15550001">>, <<"whatsapp:", "+15550002">>}
CtxBodies == {"Book a showing", "Is Friday free?"}

CtxTurns ==
    {Conversation(StripPrefix(From), Body, CheckingReply) :
        From \in CtxFroms, Body \in CtxBodies}

StoredTurns == UNION {[1..n -> CtxTurns] : n \in 0..MaxTurns}

InitCtx ==
    /\ appointments = <<>>
    /\ conversations \in StoredTurns
    /\ sheet = <<>>
    /\ runs = 0
    /\ local = [p \in Procs |-> InitLocal]

NextCtx == Receive(1, CtxFroms, CtxBodies)

SpecCtx == InitCtx /\ [][NextCtx]_vars

\* The stored turns of a sender, oldest first
TurnsOf(sender) == SelectSeq(conversations, LAMBDA c : c.sender = sender)

\* C17: the context built for a new message holds the inbound texts of the
\* sender's min(3, n) most recent stored turns, n being the number of the
\* sender's stored turns, oldest first, one per line: no turn of another
\* sender, no outbound text, nothing when the sender has no stored turn; and
\* building it changes no stored record.
C17_ContextIsLastThreeInbound ==
    /\ [](\A p \in Procs :
            local[p].pc = "call_model" =>
                LET mine == TurnsOf(local[p].whatsapp_number)
                    n == Len(mine)
                    k == IF n < 3 THEN n ELSE 3
                IN  /\ Len(local[p].context_text) = k
                    /\ \A i \in 1..k : local[p].context_text[i] = mine[n - k + i].message)
    /\ [][conversations' = conversations /\ appointments' = appointments]_vars

\* A context of three lines out of four stored turns of the sender, with a
\* turn of the other sender stored between them
C17_Witness ==
    \E p \in Procs :
        /\ local[p].pc = "call_model"
        /\ Len(TurnsOf(local[p].whatsapp_number)) = 4
        /\ Len(conversations) = 5
        /\ conversations[4].sender # local[p].whatsapp_number
        /\ conversations[1].message # conversations[2].message
        /\ local[p].context_text =
              <<conversations[2].message, conversations[3].message, conversations[5].message>>

\* C18: sync_appt_to_sheet is called at most once in a run, and only in a run
\* that parsed a date and time, is no cancellation, found no conflict and has
\* committed its Appointment: never for a cancellation, after a conflict,
\* after a malformed date or time, after a failed write or without an intent;
\* and the sheet changes in no other step.
C18_SyncOnlyAfterCommittedBooking ==
    /\ [](\A p \in Procs :
            LET L == local[p] IN
            /\ L.synced <= 1
            /\ L.synced = 1 =>
                  /\ BookingOf(p)
                  /\ ~L.conflict
                  /\ L.failed \cap {"format", "subscript", "query", "commit"} = {}
                  /\ appointments = Append(L.start_appts, Record(p))
                  /\ L.pc \in {"confirm", "done"}
            /\ (~Truthy(L.appt_info) \/ CancellationOf(p) \/ L.conflict
                   \/ L.failed \cap {"format", "commit"} # {}) => L.synced = 0)
    /\ [][sheet' # sheet => \E p \in Procs : local[p].pc = "sync" /\ local'[p].synced = 1]_vars

\* The sync ran after a booking was committed over a table that held records
C18_Witness ==
    \E p \in Procs :
        /\ local[p].synced = 1
        /\ local[p].start_appts # <<>>
        /\ appointments = Append(local[p].start_appts, Record(p))
        /\ Booking(Record(p))

\* The record of the run of p is the one row added since the run began
Wrote(p) == Converted(p) /\ appointments = Append(local[p].start_appts, Record(p))

\* C19: a run writes at most one Appointment, and hands to the transport at
\* most one appointment message, after its one chat reply; a booking or
\* cancellation confirmation is handed over only with the run's own record
\* already in the Appointment table.
C19_ConfirmationFollowsCommit ==
    \A p \in Procs :
        LET L == local[p] IN
        L.pc # "idle" =>
            /\ appointments = L.start_appts \/ Wrote(p)
            /\ \/ Kind(L.sent) \in {<<>>, <<"chat">>}
               \/ \E k \in {"confirmation", "cancellation", "conflict"} :
                     Kind(L.sent) = <<"chat", k>>
            /\ \A i \in 1..Len(L.sent) :
                  /\ L.sent[i].kind = "confirmation" => BookingOf(p) /\ Wrote(p)
                  /\ L.sent[i].kind = "cancellation" => CancellationOf(p) /\ Wrote(p)
                  /\ L.sent[i].kind = "conflict" => appointments = L.start_appts

\* A cancellation confirmation was handed over after the record was stored
C19_Witness ==
    \E p \in Procs :
        /\ Kind(local[p].sent) = <<"chat", "cancellation">>
        /\ Wrote(p)
        /\ Len(appointments) = 2

(***************************************************************************)
(* sync_appt_to_sheet on its own (sheets_sync.py run as a script): it is   *)
(* called up to MaxSyncs times on an Appointment table that does not       *)
(* change, over a sheet that is empty, holds the header, a processed row   *)
(* or a row of an earlier sync.  local[1].synced counts the calls.         *)
(***************************************************************************)
MaxSyncs == 2

SyncRecords ==
    {Appointment("+15550001", Intent(Jane, Str(sl[1]), Str(sl[2]), Str(sl[3])),
                 Strptime(sl[2], sl[3])) :
        sl \in {<<"showing", "2026-03-02", "01:00">>, <<"showing", "2026-03-03", "01:00">>,
                <<"cancellation", "2026-03-02", "01:00">>}}

SyncTables == UNION {[1..n -> SyncRecords] : n \in 0..2}

SyncSheets ==
    { <<>>,
      <<DefaultHeader>>,
      <<DefaultHeader, <<"showing", "2026-02-27", "09:00:00", "John Roe", "+15550002", "done">> >>,
      <<DefaultHeader, <<"showing", "2026-03-02", "01:00:00", "Jane Doe", "+15550001", "">> >>,
      <<DefaultHeader, <<"showing", "2026-02-27", "09:00:00", "John Roe", "+15550002", "done">>,
                       <<"consultation", "2026-02-28", "10:00:00", "John Roe", "+15550002", "">> >> }

InitSync ==
    /\ appointments \in SyncTables
    /\ conversations = <<>>
    /\ sheet \in SyncSheets
    /\ runs = 0
    /\ local = [p \in Procs |-> InitLocal]

Resync ==
    /\ local[1].synced < MaxSyncs
    /\ sheet' = sync_appt_to_sheet(appointments, sheet)
    /\ local' = [local EXCEPT ![1].synced = @ + 1]
    /\ UNCHANGED <<appointments, conversations, runs>>

NextSync == Resync

SpecSync == InitSync /\ [][NextSync]_vars

\* How many elements of a sequence satisfy a test
Count(s, Test(_)) == Len(SelectSeq(s, Test))

\* C20: sync_appt_to_sheet is idempotent: once it has run, a further run on
\* the same Appointment table leaves the sheet as it is, and after any
\* number of runs each stored appointment has one data row of its own.
C20_SyncIsIdempotent ==
    /\ [](local[1].synced >= 1 =>
            \A a \in Rows(appointments) :
                Count(Tail(sheet), LAMBDA row : row = AppointmentRow(a))
                    = Count(appointments, LAMBDA b : AppointmentRow(b) = AppointmentRow(a)))
    /\ [][local[1].synced >= 1 => sheet' = sheet]_vars

====
